---- MODULE Spec2Model ----
(***************************************************************************)
(* A model of the Bitcask key/value store of src/src/bitcask.rs.           *)
(*                                                                         *)
(* The state is the database directory (the *.data and *.hints files, each *)
(* data file a sequence of records of which a prefix is on stable storage),*)
(* the Bitcask structure (keymap, current, datafiles, maxID), its RwLocks, *)
(* and the position of every client thread inside the call it is making.   *)
(*                                                                         *)
(* Reading of the source where it leaves a name unbound:                   *)
(*   - `ID` in Bitcask::new (line 280) and Bitcask::rotate (line 362) is   *)
(*     the engine's maxID field, "the highest ID of an existing datafile"  *)
(*     (lines 16-18, 270); no line of the source assigns maxID, so it      *)
(*     keeps its Default value 0;                                          *)
(*   - `map.get(key, entry)?` (line 292) returns early when the key is     *)
(*     absent (tests.rs expects None); `map.remove(&key)?` (line 323) and  *)
(*     `map.insert(..)?` (line 361) have no failure to propagate;          *)
(*   - a byte offset is modelled by the number of records before it.       *)
(*                                                                         *)
(* Taking file_lock or the keymap lock is a step of its own, enabled when  *)
(* the lock can be had; the statements under the lock and its release are  *)
(* the next step. rotate takes datafiles.write() in one step with its      *)
(* map.insert and holds it until the new datafile is installed. The first  *)
(* `self.current.read()` of a call is one step with the call: no method    *)
(* takes the write side of `current`, so it never waits.                   *)
(***************************************************************************)
EXTENDS Integers, Sequences, FiniteSets, TLC

\* ---------------------------------------------------------------- bounds
MaxOps == 2             \* calls made by the client threads in one run
MaxDowns == 1           \* process terminations (crash or shutdown) in one run
MaxHintOps == 3         \* calls of the BitcaskHintsfile functions in one run

\* ------------------------------------------------------- program constants
MaxValueSize == 4096    \* value: [u8; 4096]

Threads == {"t1", "t2"}         \* client threads sharing the engine
Keys == {10, 14}                \* keys used by the clients
None == "None"
NotFound == "NotFound"
IoError == "IoError"
Ok == "Ok"
PUT == "PUT"
DELETE == "DELETE"

\* A value is a byte string; the model keeps its text and its length.
Value(b, n) == [b |-> b, len |-> n]
Values == { Value("b", MaxValueSize), Value("c", MaxValueSize + 1) }
\* The puts the clients make: one of a value of the greatest size that fits a
\* record, one of a value one octet longer.
Puts == { <<10, Value("b", MaxValueSize)>>, <<14, Value("c", MaxValueSize + 1)>> }
EmptyValue == Value("", 0)

Min(a, b) == IF a < b THEN a ELSE b

\* BitcaskDatafileRecord::new: value_size is the length the caller passed,
\* value is the fixed 4096-octet buffer the bytes are copied into.
BitcaskDatafileRecord(key, op, value_size, value) ==
    [key |-> key, op |-> op, value_size |-> value_size,
     value |-> Value(value.b, Min(value.len, MaxValueSize))]

\* BitcaskKeymapEntry::new
BitcaskKeymapEntry(value_size, fileid, offset) ==
    [value_size |-> value_size, fileid |-> fileid, offset |-> offset]

VARIABLES
    data,        \* the *.data files: FID -> the records of <FID>.data, in file order
    synced,      \* FID -> number of leading records of <FID>.data on stable storage
    hints,       \* the *.hints files: the set of their FIDs
    up,          \* TRUE while a Bitcask value exists (between new and shutdown/crash)
    openRet,     \* result of the last Bitcask::new, or None
    keymap,      \* Bitcask.keymap: key -> BitcaskKeymapEntry, for the keys it holds
    current,     \* Bitcask.current: [ID, h] the active BitcaskDatafile (h: which object)
    datafiles,   \* Bitcask.datafiles: FID -> the object archived under it
    maxID,       \* Bitcask.maxID
    nextH,       \* number of BitcaskDatafile objects created by this process
    kmReaders,   \* threads holding keymap.read()
    kmWriter,    \* thread holding keymap.write(), or None
    curReaders,  \* threads holding current.read()
    dfWriter,    \* thread holding datafiles.write(), or None
    fileLock,    \* object h -> thread holding its file_lock.write(), or None
    pc,          \* thread -> where it is in its call
    arg,         \* thread -> [op, key, value] of the call it is making or made last
    df,          \* thread -> the BitcaskDatafile its `df` guard refers to
    offs,        \* thread -> the two `offset` of BitcaskDatafile::put / ::delete:
                 \* outer (line 124, 141) and inner (line 127, 144)
    ret,         \* the call that returned last: what it was, [st, out] its result,
                 \* entry: the offset its datafile call returned, seek: the offset
                 \* its seek returned, and what `expect` and `failed` were for it
    hstep,       \* the BitcaskHintsfile function that ran last: [op, ID, st], n: how
                 \* many have run, generated: the FIDs hintsfile_generate returned Ok for
    nops,        \* calls started so far
    ndown,       \* process terminations so far
    \* What the calls have done so far, kept to state the properties:
    sess,        \* key -> what the last write of the key in this process asks get to return
    acked,       \* key -> the value of a put that returned Ok, no write of the key since
    expect,      \* thread -> what its get must return, known when no write overlaps it
    failed,      \* thread -> TRUE when the append or the sync of its call failed
    closed,      \* [how, valid, km] how the last process ended, and its keymap if
                 \* that was a shutdown that directly followed new
    fresh        \* TRUE from Bitcask::new until the first call

vars == <<data, synced, hints, up, openRet, keymap, current, datafiles, maxID, nextH,
          kmReaders, kmWriter, curReaders, dfWriter, fileLock, pc, arg, df, offs, ret,
          hstep, nops, ndown, sess, acked, expect, failed, closed, fresh>>
disk == <<data, synced, hints>>
engine == <<up, openRet, keymap, current, datafiles, maxID, nextH>>
locks == <<kmReaders, kmWriter, curReaders, dfWriter, fileLock>>
history == <<sess, acked, expect, failed, closed, fresh>>

Handles == 1..(MaxOps + 1)
NoDatafile == [ID |-> 0, h |-> 0]
NoArg == [op |-> None, key |-> 0, value |-> EmptyValue]
Result(st, v) == [st |-> st, value |-> v]
Unknown == Result(None, EmptyValue)
NoOffset == [outer |-> 0, inner |-> 0]
NoRet == [op |-> None, key |-> 0, value |-> EmptyValue, st |-> None, out |-> EmptyValue,
          keys |-> {}, entry |-> 0, seek |-> 0, expect |-> Unknown, failed |-> FALSE]
NoHstep == [op |-> None, ID |-> 0, st |-> None, n |-> 0, generated |-> {}]
EmptyMap == [x \in {} |-> 0]
NotClosed == [how |-> None, valid |-> FALSE, km |-> EmptyMap]

\* HashMap::insert and HashMap::remove
MapInsert(m, k, v) == [x \in DOMAIN m \cup {k} |-> IF x = k THEN v ELSE m[x]]
MapRemove(m, k) == [x \in DOMAIN m \ {k} |-> m[x]]

\* ------------------------------------------------------------ the directory
\* The directories a run may find at its first open: empty; one data file;
\* two data files, the one of higher FID ending in a PUT or in a DELETE of the
\* key of the other; a hint file with no data file.
InitDirs ==
    LET put == <<BitcaskDatafileRecord(10, PUT, 1, Value("a", 1))>>
        del == <<BitcaskDatafileRecord(10, DELETE, 0, EmptyValue)>>
    IN  { [data |-> EmptyMap,              hints |-> {}],
          [data |-> 1 :> put,              hints |-> {}],
          [data |-> 2 :> put @@ 3 :> put,  hints |-> {}],
          [data |-> 2 :> put @@ 3 :> del,  hints |-> {}],
          [data |-> EmptyMap,              hints |-> {3}] }

\* File::create(&filename): creates the file, or truncates it when it exists.
FileCreate(d, f) == MapInsert(d, f, <<>>)

\* f.seek(SeekFrom::End(0)); f.write(&rec): the record goes after the last one.
FileAppend(d, f, rec) == [d EXCEPT ![f] = Append(@, rec)]

\* sync_all(): everything written to the file so far is on stable storage.
FileSync(s, d, f) == [s EXCEPT ![f] = Len(d[f])]

\* What a file may hold after the process and the machine stop: the synced
\* records, and any number of the records written after the last sync.
Survivors(d, s, f) == { SubSeq(d[f], 1, n) : n \in s[f]..Len(d[f]) }

\* BitcaskDatafile::new(dirpath, ID): the new file is <ID+1>.data.
DatafileNewID(ID) == ID + 1

\* BitcaskDatafile::get(offset): the record at `offset`; the read fails past
\* the end of the file.
DatafileGet(d, f, offset) ==
    IF f \in DOMAIN d /\ offset < Len(d[f])
    THEN Result(Ok, d[f][offset + 1].value)
    ELSE Result(IoError, EmptyValue)

\* BitcaskDatafile::put / ::delete return `offset`, the outer binding, which is
\* 0: the seek's result is bound to a second `offset` local to the inner block.
DatafilePutOffset(d, f) == 0

\* Bitcask::get as a function of the engine's state (no other thread running):
\* the keymap lookup, then the read from the current datafile.
BitcaskGet(km, cur, d, key) ==
    IF key \notin DOMAIN km THEN Result(NotFound, EmptyValue)
    ELSE DatafileGet(d, cur.ID, km[key].offset)

\* The records of file f that are about key k, as <<offset, record>> pairs.
RecordsOf(d, f, k) == { <<i - 1, d[f][i]>> : i \in { j \in 1..Len(d[f]) : d[f][j].key = k } }

\* The files of directory d that hold a record about key k.
FilesWith(d, k) == { f \in DOMAIN d : RecordsOf(d, f, k) # {} }

\* The last record about key k in file f, with its offset.
LastRecord(d, f, k) ==
    CHOOSE p \in RecordsOf(d, f, k) : \A q \in RecordsOf(d, f, k) : q[1] <= p[1]

\* The keymap that replaying the data files of d in ascending FID order gives.
Replay(d) ==
    LET top(k) == CHOOSE f \in FilesWith(d, k) : \A g \in FilesWith(d, k) : g <= f
        live == { k \in Keys : FilesWith(d, k) # {} /\ LastRecord(d, top(k), k)[2].op = PUT }
    IN  [k \in live |->
            BitcaskKeymapEntry(LastRecord(d, top(k), k)[2].value_size, top(k),
                               LastRecord(d, top(k), k)[1])]

\* Bitcask::new filling the keymap from the directory as it finds it.
NewKeymapFromDirectory(d) == Replay(d)

\* The keymap Bitcask::new builds: an empty HashMap (the calls that would fill
\* it from the hint files are commented out).
NewKeymap(d) == EmptyMap

\* Bitcask::put recording the entry it got from the datafile.
KeymapAfterPutInsert(km, key, entry) == MapInsert(km, key, entry)

\* The keymap after Bitcask::put has appended its record: put does not touch it.
KeymapAfterPut(km, key, entry) == km

\* Bitcask::delete recording a tombstone entry instead of removing the key.
KeymapAfterDeleteTombstone(km, key) == MapInsert(km, key, BitcaskKeymapEntry(0, 0, 0))

\* The keymap after Bitcask::delete: map.remove(&key).
KeymapAfterDelete(km, key) == MapRemove(km, key)

\* ------------------------------------------------------------------ Init
\* No process is running; the directory holds any of the small databases.
Init ==
    /\ \E dir \in InitDirs :
         /\ data = dir.data
         /\ synced = [f \in DOMAIN dir.data |-> Len(dir.data[f])]
         /\ hints = dir.hints
    /\ up = FALSE
    /\ openRet = None
    /\ keymap = EmptyMap
    /\ current = NoDatafile
    /\ datafiles = EmptyMap
    /\ maxID = 0
    /\ nextH = 0
    /\ kmReaders = {}
    /\ kmWriter = None
    /\ curReaders = {}
    /\ dfWriter = None
    /\ fileLock = [h \in Handles |-> None]
    /\ pc = [t \in Threads |-> "idle"]
    /\ arg = [t \in Threads |-> NoArg]
    /\ df = [t \in Threads |-> NoDatafile]
    /\ offs = [t \in Threads |-> NoOffset]
    /\ ret = NoRet
    /\ hstep = NoHstep
    /\ nops = 0
    /\ ndown = 0
    /\ sess = [k \in Keys |-> Unknown]
    /\ acked = [k \in Keys |-> Unknown]
    /\ expect = [t \in Threads |-> Unknown]
    /\ failed = [t \in Threads |-> FALSE]
    /\ closed = NotClosed
    /\ fresh = FALSE

\* ------------------------------------------------------------ lifecycle
\* Bitcask::new: an empty keymap, an empty archive, and a new current
\* datafile created by BitcaskDatafile::new(dirpath, ID) with ID = maxID = 0.
\* The directory is not scanned: both hintsfile calls are commented out.
BitcaskNew ==
    /\ ~up
    /\ \E created \in BOOLEAN :
         IF created
         THEN /\ keymap' = NewKeymap(data)
              /\ datafiles' = EmptyMap
              /\ data' = FileCreate(data, DatafileNewID(0))
              /\ synced' = MapInsert(synced, DatafileNewID(0), 0)
              /\ current' = [ID |-> DatafileNewID(0), h |-> 1]
              /\ nextH' = 1
              /\ maxID' = 0
              /\ up' = TRUE
              /\ openRet' = Ok
              /\ fresh' = TRUE
         ELSE /\ openRet' = IoError
              /\ UNCHANGED <<data, synced, keymap, datafiles, current, nextH, maxID, up, fresh>>
    /\ UNCHANGED <<hints, locks, pc, arg, df, offs, ret, hstep, nops, ndown,
                   sess, acked, expect, failed, closed>>

\* The process ends: the Bitcask value, its locks and its threads are gone.
ProcessEnds ==
    /\ up' = FALSE
    /\ keymap' = EmptyMap
    /\ datafiles' = EmptyMap
    /\ current' = NoDatafile
    /\ maxID' = 0
    /\ nextH' = 0
    /\ kmReaders' = {}
    /\ kmWriter' = None
    /\ curReaders' = {}
    /\ dfWriter' = None
    /\ fileLock' = [h \in Handles |-> None]
    /\ pc' = [t \in Threads |-> "idle"]
    /\ df' = [t \in Threads |-> NoDatafile]
    /\ offs' = [t \in Threads |-> NoOffset]
    /\ arg' = [t \in Threads |-> NoArg]
    /\ ret' = NoRet
    /\ ndown' = ndown + 1
    /\ sess' = [k \in Keys |-> Unknown]
    /\ expect' = [t \in Threads |-> Unknown]
    /\ failed' = [t \in Threads |-> FALSE]
    /\ fresh' = FALSE

\* Bitcask::shutdown, called when no thread is inside a call: sync the current
\* datafile (no hint file is generated), then the process exits.
BitcaskShutdown ==
    /\ up
    /\ ndown < MaxDowns
    /\ \A t \in Threads : pc[t] = "idle"
    /\ \E ok \in BOOLEAN :
         synced' = IF ok THEN FileSync(synced, data, current.ID) ELSE synced
    /\ closed' = [how |-> "shutdown", valid |-> fresh, km |-> IF fresh THEN keymap ELSE EmptyMap]
    /\ ProcessEnds
    /\ UNCHANGED <<data, hints, openRet, hstep, nops, acked>>

\* The process is terminated at any point and the machine may stop with it:
\* each file keeps its synced records and some of the later ones.
Crash ==
    /\ up
    /\ ndown < MaxDowns
    /\ data' \in { d \in [DOMAIN data -> UNION { Survivors(data, synced, f) : f \in DOMAIN data }] :
                     \A f \in DOMAIN data : d[f] \in Survivors(data, synced, f) }
    /\ synced' = [f \in DOMAIN data |-> Len(data'[f])]
    /\ closed' = [how |-> "crash", valid |-> FALSE, km |-> EmptyMap]
    /\ ProcessEnds
    /\ UNCHANGED <<hints, openRet, hstep, nops, acked>>

\* ---------------------------------------------------------------- calls
Ops == {"get", "put", "delete", "list_keys", "sync", "rotate"}
NoKeyOps == {"list_keys", "sync", "rotate"}     \* the methods that take no key
NoDfOps == {"get", "list_keys"}                 \* the methods that start at the keymap

\* Where a call is after its first statement. For put, delete, sync and
\* rotate that statement is `let df = self.current.read().unwrap()`, which
\* never waits: no method takes the write side of `current`.
FirstPc(op) ==
    CASE op = "get" -> "get_kmlock"
      [] op = "put" -> "put_flock"
      [] op = "delete" -> "del_flock"
      [] op = "list_keys" -> "list_kmlock"
      [] op = "sync" -> "sync_do"
      [] op = "rotate" -> "rot_df"

\* Some thread other than t is inside a put or a delete of key k.
Writing(k, t) ==
    \E u \in Threads \ {t} : arg[u].op \in {"put", "delete"} /\ arg[u].key = k

\* A client thread calls one of the engine's methods.
Call(t) ==
    /\ up
    /\ pc[t] = "idle"
    /\ nops < MaxOps
    /\ \E op \in Ops, k \in Keys, v \in Values :
         /\ IF op = "put" THEN <<k, v>> \in Puts ELSE v = Value("b", MaxValueSize)
         /\ (op \in NoKeyOps) => k = 10
         /\ arg' = [arg EXCEPT ![t] =
                      [op |-> op,
                       key |-> IF op \in NoKeyOps THEN 0 ELSE k,
                       value |-> IF op = "put" THEN v ELSE EmptyValue]]
         /\ pc' = [pc EXCEPT ![t] = FirstPc(op)]
         /\ curReaders' = IF op \in NoDfOps THEN curReaders ELSE curReaders \cup {t}
         /\ df' = [df EXCEPT ![t] = IF op \in NoDfOps THEN NoDatafile ELSE current]
         /\ acked' = IF op \in {"put", "delete"} THEN [acked EXCEPT ![k] = Unknown] ELSE acked
         /\ expect' = [u \in Threads |->
                         IF u = t
                         THEN IF op = "get" /\ ~Writing(k, t) THEN sess[k] ELSE Unknown
                         ELSE IF op \in {"put", "delete"} /\ arg[u].op = "get" /\ arg[u].key = k
                              THEN Unknown ELSE expect[u]]
    /\ failed' = [failed EXCEPT ![t] = FALSE]
    /\ closed' = NotClosed
    /\ fresh' = FALSE
    /\ nops' = nops + 1
    /\ UNCHANGED <<disk, engine, kmReaders, kmWriter, dfWriter, fileLock, offs, ret, hstep,
                   ndown, sess>>

\* The call of thread t returns [st, out, keys]; fl tells whether its append
\* or its sync failed.
ReturnKeys(t, st, out, keys, fl) ==
    /\ pc' = [pc EXCEPT ![t] = "idle"]
    /\ ret' = [op |-> arg[t].op, key |-> arg[t].key, value |-> arg[t].value,
               st |-> st, out |-> out, keys |-> keys, entry |-> offs[t].outer, seek |-> offs[t].inner,
               expect |-> expect[t], failed |-> fl]
    /\ arg' = [arg EXCEPT ![t] = NoArg]
    /\ df' = [df EXCEPT ![t] = NoDatafile]
    /\ offs' = [offs EXCEPT ![t] = NoOffset]
    /\ expect' = [expect EXCEPT ![t] = Unknown]
    /\ failed' = [failed EXCEPT ![t] = FALSE]

Return(t, st, out, fl) == ReturnKeys(t, st, out, {}, fl)

Goto(t, l) == pc' = [pc EXCEPT ![t] = l]

\* let f = self.file_lock.write().unwrap() of the datafile the thread's `df`
\* refers to: taken when no thread holds it.
FileLockWrite(t, l) ==
    /\ fileLock[df[t].h] = None
    /\ fileLock' = [fileLock EXCEPT ![df[t].h] = t]
    /\ Goto(t, l)
    /\ UNCHANGED <<disk, engine, kmReaders, kmWriter, curReaders, dfWriter, df, arg, offs, ret,
                   hstep, nops, ndown, history>>

\* let map = self.keymap.read().unwrap(): taken when no thread holds the
\* write side.
KeymapRead(t, l) ==
    /\ kmWriter = None
    /\ kmReaders' = kmReaders \cup {t}
    /\ Goto(t, l)
    /\ UNCHANGED <<disk, engine, kmWriter, curReaders, dfWriter, fileLock, df, arg, offs, ret,
                   hstep, nops, ndown, history>>

\* The guard of self.keymap.write() at the end of the block of Bitcask::delete:
\* never released.
KeymapGuardLeaked(t) == t

\* The guard of self.keymap.write() at the end of the block of Bitcask::delete
\* (line 324): dropped.
KeymapGuardAfterRemove(t) == None

\* The block of BitcaskDatafile::put / ::delete that holds file_lock.write():
\* the seek to the end and the write, left with the lock dropped. A failed
\* seek or write returns through both `?`, dropping the `df` guard as well.
AppendRecord(t, rec, l) ==
    /\ fileLock[df[t].h] = t
    /\ fileLock' = [fileLock EXCEPT ![df[t].h] = None]
    /\ \E ok \in BOOLEAN :
         IF ok
         THEN /\ data' = FileAppend(data, df[t].ID, rec)
              /\ offs' = [offs EXCEPT ![t] = [outer |-> DatafilePutOffset(data, df[t].ID),
                                                  inner |-> Len(data[df[t].ID])]]
              /\ sess' = [sess EXCEPT ![rec.key] =
                            IF rec.op = PUT THEN Result(Ok, arg[t].value)
                            ELSE Result(NotFound, EmptyValue)]
              /\ Goto(t, l)
              /\ UNCHANGED <<curReaders, df, arg, ret, expect, failed>>
         ELSE /\ data' = data
              /\ curReaders' = curReaders \ {t}
              /\ Return(t, IoError, EmptyValue, TRUE)
              /\ UNCHANGED sess
    /\ UNCHANGED <<synced, hints, engine, kmReaders, kmWriter, dfWriter,
                   hstep, nops, ndown, acked, closed, fresh>>

\* ------------------------------------------------------------ Bitcask::put
DatafilePut_lock(t) ==
    /\ pc[t] = "put_flock"
    /\ FileLockWrite(t, "put_write")

DatafilePut_write(t) ==
    /\ pc[t] = "put_write"
    /\ AppendRecord(t, BitcaskDatafileRecord(arg[t].key, PUT, arg[t].value.len, arg[t].value),
                    "put_sync")

\* Self::sync(self) with flush == true, its result not looked at; Ok(offset)
\* to Bitcask::put, which does not use `entry`, drops `df` and returns Ok(true).
DatafilePut_sync(t) ==
    /\ pc[t] = "put_sync"
    /\ \E ok \in BOOLEAN :
         /\ synced' = IF ok THEN FileSync(synced, data, df[t].ID) ELSE synced
         /\ Return(t, Ok, EmptyValue, ~ok)
    /\ keymap' = KeymapAfterPut(keymap, arg[t].key,
                     BitcaskKeymapEntry(arg[t].value.len, df[t].ID, offs[t].outer))
    /\ curReaders' = curReaders \ {t}
    /\ acked' = [acked EXCEPT ![arg[t].key] =
                   IF Writing(arg[t].key, t) THEN Unknown ELSE Result(Ok, arg[t].value)]
    /\ UNCHANGED <<data, hints, up, openRet, current, datafiles, maxID, nextH,
                   kmReaders, kmWriter, dfWriter, fileLock, hstep, nops, ndown,
                   sess, closed, fresh>>

\* --------------------------------------------------------- Bitcask::delete
DatafileDelete_lock(t) ==
    /\ pc[t] = "del_flock"
    /\ FileLockWrite(t, "del_write")

DatafileDelete_write(t) ==
    /\ pc[t] = "del_write"
    /\ AppendRecord(t, BitcaskDatafileRecord(arg[t].key, DELETE, 0, EmptyValue), "del_sync")

\* Self::sync(self) with flush == true, its result not looked at; Ok(offset)
\* to Bitcask::delete, which drops `df`.
DatafileDelete_sync(t) ==
    /\ pc[t] = "del_sync"
    /\ \E ok \in BOOLEAN :
         /\ synced' = IF ok THEN FileSync(synced, data, df[t].ID) ELSE synced
         /\ failed' = [failed EXCEPT ![t] = ~ok]
    /\ curReaders' = curReaders \ {t}
    /\ df' = [df EXCEPT ![t] = NoDatafile]
    /\ Goto(t, "del_kmlock")
    /\ UNCHANGED <<data, hints, engine, kmReaders, kmWriter, dfWriter, fileLock, arg, offs,
                   ret, hstep, nops, ndown, sess, acked, expect, closed, fresh>>

\* let map = self.keymap.write().unwrap(): taken when no thread holds the
\* keymap lock, on either side.
BitcaskDelete_lock(t) ==
    /\ pc[t] = "del_kmlock"
    /\ kmWriter = None /\ kmReaders = {}
    /\ kmWriter' = t
    /\ Goto(t, "del_km")
    /\ UNCHANGED <<disk, engine, kmReaders, curReaders, dfWriter, fileLock, df, arg, offs, ret,
                   hstep, nops, ndown, history>>

\* map.remove(&key); the lock is dropped; Ok(true).
BitcaskDelete_remove(t) ==
    /\ pc[t] = "del_km"
    /\ keymap' = KeymapAfterDelete(keymap, arg[t].key)
    /\ kmWriter' = KeymapGuardAfterRemove(t)
    /\ Return(t, Ok, EmptyValue, failed[t])
    /\ UNCHANGED <<disk, up, openRet, current, datafiles, maxID, nextH,
                   kmReaders, curReaders, dfWriter, fileLock, hstep, nops, ndown,
                   sess, acked, closed, fresh>>

\* ------------------------------------------------------------ Bitcask::get
BitcaskGet_lock(t) ==
    /\ pc[t] = "get_kmlock"
    /\ KeymapRead(t, "get_km")

\* map.get(key, entry)? ends the call when the key is absent, the guard
\* dropped. A key that is present is read from the current datafile (lines
\* 295-299); no state of the program has a key in the keymap, so that read is
\* one step with the lookup.
BitcaskGet_lookup(t) ==
    /\ pc[t] = "get_km"
    /\ kmReaders' = kmReaders \ {t}
    /\ LET r == BitcaskGet(keymap, current, data, arg[t].key)
       IN  Return(t, r.st, r.value, FALSE)
    /\ UNCHANGED <<disk, engine, kmWriter, curReaders, dfWriter, fileLock,
                   hstep, nops, ndown, sess, acked, closed, fresh>>

\* ------------------------------------------------------ Bitcask::list_keys
BitcaskListKeys_lock(t) ==
    /\ pc[t] = "list_kmlock"
    /\ KeymapRead(t, "list_km")

\* for key in map.keys() { keyvec.push(*key) }; the guard is dropped; keyvec.
BitcaskListKeys_keys(t) ==
    /\ pc[t] = "list_km"
    /\ kmReaders' = kmReaders \ {t}
    /\ ReturnKeys(t, Ok, EmptyValue, DOMAIN keymap, FALSE)
    /\ UNCHANGED <<disk, engine, kmWriter, curReaders, dfWriter, fileLock,
                   hstep, nops, ndown, sess, acked, closed, fresh>>

\* ----------------------------------------------------------- Bitcask::sync
\* df.sync()?: here the result of sync_all is propagated.
BitcaskSync_sync(t) ==
    /\ pc[t] = "sync_do"
    /\ \E ok \in BOOLEAN :
         /\ synced' = IF ok THEN FileSync(synced, data, df[t].ID) ELSE synced
         /\ Return(t, IF ok THEN Ok ELSE IoError, EmptyValue, ~ok)
    /\ curReaders' = curReaders \ {t}
    /\ UNCHANGED <<data, hints, engine, kmReaders, kmWriter, dfWriter, fileLock,
                   hstep, nops, ndown, sess, acked, closed, fresh>>

\* --------------------------------------------------------- Bitcask::rotate
\* let map = self.datafiles.write().unwrap(), taken when no thread holds it;
\* map.insert(self.current.ID, self.current)
BitcaskRotate_insert(t) ==
    /\ pc[t] = "rot_df"
    /\ dfWriter = None
    /\ dfWriter' = t
    /\ datafiles' = MapInsert(datafiles, current.ID, current)
    /\ Goto(t, "rot_new")
    /\ UNCHANGED <<disk, up, openRet, keymap, current, maxID, nextH,
                   kmReaders, kmWriter, curReaders, fileLock, df, arg, offs, ret,
                   hstep, nops, ndown, history>>

\* self.current = BitcaskDatafile::new(dirpath, ID)? with ID = maxID; both
\* guards are dropped whether or not the file was created.
BitcaskRotate_new(t) ==
    /\ pc[t] = "rot_new"
    /\ \E created \in BOOLEAN :
         IF created
         THEN /\ data' = FileCreate(data, DatafileNewID(maxID))
              /\ synced' = MapInsert(synced, DatafileNewID(maxID), 0)
              /\ current' = [ID |-> DatafileNewID(maxID), h |-> nextH + 1]
              /\ nextH' = nextH + 1
              /\ Return(t, Ok, EmptyValue, FALSE)
         ELSE /\ UNCHANGED <<data, synced, current, nextH>>
              /\ Return(t, IoError, EmptyValue, TRUE)
    /\ curReaders' = curReaders \ {t}
    /\ dfWriter' = None
    /\ UNCHANGED <<hints, up, openRet, keymap, datafiles, maxID,
                   kmReaders, kmWriter, fileLock, hstep, nops, ndown, sess, acked, closed, fresh>>

\* ------------------------------------------------------------------ Next
Next ==
    \/ BitcaskNew
    \/ BitcaskShutdown
    \/ Crash
    \/ \E t \in Threads : Call(t)
    \/ \E t \in Threads : DatafilePut_lock(t)
    \/ \E t \in Threads : DatafilePut_write(t)
    \/ \E t \in Threads : DatafilePut_sync(t)
    \/ \E t \in Threads : DatafileDelete_lock(t)
    \/ \E t \in Threads : DatafileDelete_write(t)
    \/ \E t \in Threads : DatafileDelete_sync(t)
    \/ \E t \in Threads : BitcaskDelete_lock(t)
    \/ \E t \in Threads : BitcaskDelete_remove(t)
    \/ \E t \in Threads : BitcaskGet_lock(t)
    \/ \E t \in Threads : BitcaskGet_lookup(t)
    \/ \E t \in Threads : BitcaskListKeys_lock(t)
    \/ \E t \in Threads : BitcaskListKeys_keys(t)
    \/ \E t \in Threads : BitcaskSync_sync(t)
    \/ \E t \in Threads : BitcaskRotate_insert(t)
    \/ \E t \in Threads : BitcaskRotate_new(t)

Spec == Init /\ [][Next]_vars

\* The steps of thread t inside the call it has made.
ThreadStep(t) ==
    \/ DatafilePut_lock(t) \/ DatafilePut_write(t) \/ DatafilePut_sync(t)
    \/ DatafileDelete_lock(t) \/ DatafileDelete_write(t) \/ DatafileDelete_sync(t)
    \/ BitcaskDelete_lock(t) \/ BitcaskDelete_remove(t)
    \/ BitcaskGet_lock(t) \/ BitcaskGet_lookup(t)
    \/ BitcaskListKeys_lock(t) \/ BitcaskListKeys_keys(t)
    \/ BitcaskSync_sync(t)
    \/ BitcaskRotate_insert(t) \/ BitcaskRotate_new(t)

\* The runs on a directory that is empty at the first open in which every
\* thread that can go on does go on: the scheduler runs each runnable thread,
\* I/O calls return, and a lock that is free is given to a thread waiting for it.
InitFair == Init /\ data = EmptyMap /\ hints = {}
FairSpec == InitFair /\ [][Next]_vars /\ \A t \in Threads : WF_vars(ThreadStep(t))

\* ------------------------------------------------------- BitcaskHintsfile
\* The functions of BitcaskHintsfile. No method of Bitcask calls them (the
\* calls in new, rotate and shutdown are commented out); they are "to run
\* during single-threaded mode either startup or shutdown processing" (line
\* 229), so here they run on the directory while no engine is up.

\* BitcaskHintsfile::new(dirpath, ID): the number in the name of the file it
\* creates, format("{}/{}.data", dirpath, ID+1).
HintsfileNewName(ID) == ID + 1

HintStep(op, ID, st, gen) ==
    [op |-> op, ID |-> ID, st |-> st, n |-> hstep.n + 1, generated |-> gen]

\* BitcaskHintsfile::new(dirpath, ID) for the data file ID: File::create of
\* "<dirpath>/<ID+1>.data"; the struct it returns keeps ID.
HintsfileNew ==
    /\ ~up
    /\ hstep.n < MaxHintOps
    /\ \E ID \in DOMAIN data, created \in BOOLEAN :
         IF created
         THEN /\ data' = FileCreate(data, HintsfileNewName(ID))
              /\ synced' = MapInsert(synced, HintsfileNewName(ID), 0)
              /\ hstep' = HintStep("new", ID, Ok, {})
         ELSE /\ hstep' = HintStep("new", ID, IoError, hstep.generated)
              /\ UNCHANGED <<data, synced>>
    /\ UNCHANGED <<hints, engine, locks, pc, arg, df, offs, ret, nops, ndown, history>>

\* hintsfile_generate(datafile): Ok(true); its body is a comment.
HintsfileGenerate ==
    /\ ~up
    /\ hstep.n < MaxHintOps
    /\ \E ID \in DOMAIN data :
         hstep' = HintStep("generate", ID, Ok, hstep.generated \cup {ID})
    /\ UNCHANGED <<disk, engine, locks, pc, arg, df, offs, ret, nops, ndown, history>>

\* hintsfile_import(keymap, filename) for the hint file of data file ID:
\* Ok(true); the keymap is not touched.
HintsfileImport ==
    /\ ~up
    /\ hstep.n < MaxHintOps
    /\ \E ID \in DOMAIN data \cup hints :
         hstep' = HintStep("import", ID, Ok, hstep.generated)
    /\ keymap' = keymap
    /\ UNCHANGED <<disk, up, openRet, current, datafiles, maxID, nextH,
                   locks, pc, arg, df, offs, ret, nops, ndown, history>>

\* hintsfile_find_missing_files(cask, dirpath): reads the directory into two
\* queues of names and returns Ok(true), or the error of read_dir.
HintsfileFindMissingFiles ==
    /\ ~up
    /\ hstep.n < MaxHintOps
    /\ \E ok \in BOOLEAN :
         hstep' = HintStep("find_missing_files", 0, IF ok THEN Ok ELSE IoError, hstep.generated)
    /\ UNCHANGED <<disk, engine, locks, pc, arg, df, offs, ret, nops, ndown, history>>

HintNext ==
    \/ HintsfileNew
    \/ HintsfileGenerate
    \/ HintsfileImport
    \/ HintsfileFindMissingFiles

HintSpec == Init /\ [][HintNext]_vars

\* ------------------------------------------------------------ properties
Quiet == up /\ \A t \in Threads : pc[t] = "idle"
Get(k) == BitcaskGet(keymap, current, data, k)

\* C1: when no call is in progress, get(k) returns the value of the most
\* recent put of k of this process that no delete of k followed, and NotFound
\* when the last write of k was a delete.
C1_GetReturnsLastPut ==
    Quiet => \A k \in Keys : sess[k] # Unknown => Get(k) = sess[k]

\* C2: a get(k) that starts after a put(k, v) has returned, in any thread,
\* with no put or delete of k in progress from its call to its return,
\* returns v (and NotFound after a delete that has returned).
C2_ReadAfterWrite ==
    (ret.op = "get" /\ ret.expect # Unknown) =>
        (ret.st = ret.expect.st /\ ret.out = ret.expect.value)

\* C3: after the process was terminated without close and the directory is
\* opened again, get(k) returns v for every key k whose put(k, v) had
\* returned Ok with no later put or delete of k called.
C3_PutSurvivesCrash ==
    (up /\ fresh /\ closed.how = "crash") =>
        \A k \in Keys : acked[k] # Unknown => Get(k) = acked[k]

C6_HigherFidSupersedes ==
    (up /\ fresh) =>
        \A k \in Keys :
            Cardinality(FilesWith(data, k)) >= 2 =>
                /\ (k \in DOMAIN keymap) = (k \in DOMAIN Replay(data))
                /\ k \in DOMAIN keymap => keymap[k] = Replay(data)[k]

\* C7: a put or a delete whose append or sync failed returns an error and
\* leaves the keymap as it was.
C7_WriteErrorsPropagate ==
    [][(ret' # ret /\ ret'.op \in {"put", "delete"} /\ ret'.failed)
          => (ret'.st = IoError /\ keymap' = keymap)]_vars

\* C8: delete(k) appends one DELETE record for k to the datafile it holds,
\* whatever the keymap says about k, and once the record is written it returns
\* Ok; when k is not in the keymap the keymap is left as it is.
C8_DeleteAbsentKey ==
    [][\A t \in Threads :
          /\ (pc[t] = "del_write" /\ pc'[t] = "del_sync") =>
                data' = [data EXCEPT ![df[t].ID] =
                            Append(@, [key |-> arg[t].key, op |-> DELETE, value_size |-> 0,
                                       value |-> EmptyValue])]
          /\ (pc[t] = "del_km" /\ pc'[t] = "idle" /\ up') =>
                /\ ret'.op = "delete" /\ ret'.st = Ok
                /\ data' = data
                /\ (arg[t].key \notin DOMAIN keymap => keymap' = keymap)]_vars

\* A delete of a key that is not in the keymap has returned Ok, its DELETE
\* record in the current datafile.
C8_Witness ==
    /\ up
    /\ ret.op = "delete" /\ ret.st = Ok /\ ret.key \notin DOMAIN keymap
    /\ \E i \in 1..Len(data[current.ID]) :
          data[current.ID][i].op = DELETE /\ data[current.ID][i].key = ret.key

\* C9: no engine is returned for a directory that holds a hint file whose
\* FID has no data file.
C9_OrphanHintRefused ==
    (\E f \in hints : f \notin DOMAIN data) => ~up

\* C10: a put of a value longer than 4096 octets returns ValueTooLarge and no
\* record of such a value is in any data file.
C10_ValueTooLarge ==
    /\ (ret.op = "put" /\ ret.value.len > MaxValueSize) => ret.st = "ValueTooLarge"
    /\ \A f \in DOMAIN data : \A i \in 1..Len(data[f]) : data[f][i].value_size <= MaxValueSize

\* What the records of directory d say get(k) returns: the value of the last
\* record of k in the file of highest FID when that record is a PUT.
DirectoryValue(d, k) ==
    IF k \in DOMAIN Replay(d)
    THEN Result(Ok, d[Replay(d)[k].fileid][Replay(d)[k].offset + 1].value)
    ELSE Result(NotFound, EmptyValue)

\* What the get of thread t must return: what the last write of its key asks
\* for when this process wrote the key, what the directory holds when it did
\* not; Unknown while a write of the key overlaps the get.
Expected(t) ==
    IF expect[t] # Unknown THEN expect[t]
    ELSE IF sess[arg[t].key] = Unknown /\ ~Writing(arg[t].key, t)
         THEN DirectoryValue(data, arg[t].key)
         ELSE Unknown

\* C11: a get(k) of a key that has a value, returning while a rotate of another
\* thread has moved the active file into the archive and has not yet installed
\* the new one, returns Ok with that value.
C11_GetDuringRotate ==
    [][\A t \in Threads :
          (/\ up' /\ pc[t] = "get_km" /\ pc'[t] = "idle"
           /\ \E u \in Threads : pc[u] = "rot_new"
           /\ Expected(t).st = Ok)
              => (ret'.st = Ok /\ ret'.out = Expected(t).value)]_vars

\* C12: when no call is in progress the engine has one active datafile, its
\* file exists in the directory, and its FID is not a key of the archive.
C12_ActiveNotArchived ==
    Quiet => /\ current # NoDatafile
             /\ current.ID \in DOMAIN data
             /\ current.ID \notin DOMAIN datafiles

\* A step in which new or rotate has created a data file and installed it.
CreatesDatafile ==
    /\ up'
    /\ \/ ~up
       \/ \E t \in Threads : pc[t] = "rot_new" /\ pc'[t] = "idle" /\ ret'.st = Ok

\* C13: the data file that new or rotate creates has a FID greater than the
\* FID of every data file of the directory, and maxID is that FID afterwards.
C13_FidsIncrease ==
    [][CreatesDatafile =>
          /\ \A f \in DOMAIN data : current'.ID > f
          /\ maxID' = current'.ID]_vars

\* C14: every entry of the keymap names the active datafile or an archived
\* one, and the record at its offset in that file is a PUT of the entry's key
\* with the entry's value_size.
C14_KeymapValid ==
    up => \A k \in DOMAIN keymap :
            /\ keymap[k].fileid = current.ID \/ keymap[k].fileid \in DOMAIN datafiles
            /\ keymap[k].fileid \in DOMAIN data
            /\ keymap[k].offset < Len(data[keymap[k].fileid])
            /\ LET rec == data[keymap[k].fileid][keymap[k].offset + 1]
               IN  rec.op = PUT /\ rec.key = k /\ rec.value_size = keymap[k].value_size

\* No state of the program has a key in the keymap: C14 has no case to hold in.
KeymapIsEmpty == keymap = EmptyMap

\* C15: the offset that BitcaskDatafile::put / ::delete return to Bitcask::put /
\* ::delete is the length the file had when the record was written (what the
\* seek to its end returned).
C15_AppendReturnsOffset ==
    (ret.op \in {"put", "delete"} /\ ret.st = Ok) => ret.entry = ret.seek

\* The BitcaskDatafile object h has been moved into the archive.
Archived(h) == \E f \in DOMAIN datafiles : datafiles[f].h = h

\* C16: no put or delete appends its record to a datafile that rotate has
\* moved into the archive, and no rotate archives a datafile that is archived
\* already.
C16_RotateExcludesWriters ==
    [][\A t \in Threads :
          /\ (pc[t] \in {"put_write", "del_write"} /\ pc'[t] \in {"put_sync", "del_sync"})
                => ~Archived(df[t].h)
          /\ (pc[t] = "rot_df" /\ pc'[t] = "rot_new") => ~Archived(current.h)]_vars

\* Thread t holds the keymap lock, on either side.
HoldsKeymap(t) == t \in kmReaders \/ kmWriter = t

\* Thread t holds the file_lock of some datafile.
HoldsFileLock(t) == \E h \in Handles : fileLock[h] = t

\* In this step thread t takes one of the locks of the Bitcask structure.
TakesEngineLock(t) ==
    \/ t \notin curReaders /\ t \in curReaders'
    \/ t \notin kmReaders /\ t \in kmReaders'
    \/ kmWriter # t /\ kmWriter' = t
    \/ dfWriter # t /\ dfWriter' = t

\* No thread takes `current` while it holds the keymap lock, and no thread
\* takes a lock of the Bitcask structure while it holds a file_lock.
LockOrder ==
    \A t \in Threads :
        /\ (t \notin curReaders /\ t \in curReaders') => ~HoldsKeymap(t)
        /\ TakesEngineLock(t) => ~HoldsFileLock(t)

\* While the engine is up and some thread is inside a call, some thread
\* inside a call can take a step.
NoDeadlock ==
    (up /\ \E t \in Threads : pc[t] # "idle")
        => \E t \in Threads : pc[t] # "idle" /\ ENABLED ThreadStep(t)

\* C17: the locks are taken in the order `current`, keymap, file_lock; the
\* threads inside calls never all wait; and every call returns (or the process
\* ends).
C17_CallsReturn ==
    /\ [][LockOrder]_vars
    /\ []NoDeadlock
    /\ \A t \in Threads : (pc[t] # "idle") ~> (pc[t] = "idle")

\* A delete waits for the keymap while a get or a list_keys of the other
\* thread holds its read side, or a rotate waits for `datafiles` while a rotate
\* of the other thread holds it.
C17_Witness ==
    \E t \in Threads, u \in Threads :
        /\ t # u
        /\ \/ pc[t] = "del_kmlock" /\ u \in kmReaders
           \/ pc[t] = "rot_df" /\ dfWriter = u

\* C19: new and rotate create a data file only under a FID that has no data
\* file (creation fails with AlreadyExists otherwise), and the records of every
\* data file of the directory are the same after the creation as before.
C19_CreateKeepsData ==
    [][CreatesDatafile =>
          /\ current'.ID \notin DOMAIN data
          /\ \A f \in DOMAIN data : data'[f] = data[f]]_vars

\* The keymap after the records recs[i..] of data file f are applied to km one
\* by one: a PUT maps its key to the record, a DELETE removes its key.
RECURSIVE ApplyRecords(_, _, _, _)
ApplyRecords(km, f, recs, i) ==
    IF i > Len(recs) THEN km
    ELSE ApplyRecords(IF recs[i].op = PUT
                      THEN MapInsert(km, recs[i].key,
                                     BitcaskKeymapEntry(recs[i].value_size, f, i - 1))
                      ELSE MapRemove(km, recs[i].key),
                      f, recs, i + 1)

\* In this step the BitcaskHintsfile function op has returned Ok.
HintCall(op) == hstep'.n = hstep.n + 1 /\ hstep'.op = op /\ hstep'.st = Ok

\* C18: hintsfile_generate of a data file leaves its hint file in the
\* directory, and importing the hint file of a data file that was generated
\* gives the keymap that applying the records of the data file one by one
\* gives.
C18_HintsEqualReplay ==
    [][/\ HintCall("generate") => hstep'.ID \in hints'
       /\ (HintCall("import") /\ hstep'.ID \in hstep.generated)
             => keymap' = ApplyRecords(keymap, hstep'.ID, data[hstep'.ID], 1)]_vars

\* C20: creating the hint file of data file f adds f.hints to the directory
\* and leaves every data file as it was.
C20_HintsfileNewWritesHints ==
    [][HintCall("new") => (hints' = hints \cup {hstep'.ID} /\ data' = data)]_vars

====
